---- MODULE Spec2Model ----
(***************************************************************************)
(* ncchecknodefile: the single-pass validator of a NerveCenter node file. *)
(*                                                                         *)
(* Python strings are modelled as sequences of atoms: an atom is either   *)
(* one whitespace character (" ", "\t", "\n") or a maximal run of         *)
(* non-whitespace characters ("begin", "node", "10.0.0.1").  String       *)
(* concatenation is \o, '' is << >>.  A value that may be None is a set:  *)
(* None is {} and the string s is {s}.                                    *)
(***************************************************************************)
EXTENDS Integers, Sequences, FiniteSets, TLC

(* ------------------------------ bounds -------------------------------- *)

\* the longest file the model reads
MaxLines == 5

\* the longest file the model reads a second time
MaxRerunLines == 5

\* the longest file of oddly written lines the model reads
MaxTokLines == 4

(* ------------------------- Python value helpers ----------------------- *)

None == {}

Some(s) == {s}

IsNone(o) == o = {}

Val(o) == CHOOSE s \in o : TRUE

Digit(d) ==
    CASE d = 0 -> "0" [] d = 1 -> "1" [] d = 2 -> "2" [] d = 3 -> "3"
      [] d = 4 -> "4" [] d = 5 -> "5" [] d = 6 -> "6" [] d = 7 -> "7"
      [] d = 8 -> "8" [] d = 9 -> "9"

RECURSIVE Str(_)
\* str(n) of a non-negative integer: its decimal digits
Str(n) == IF n < 10 THEN <<Digit(n)>> ELSE Str(n \div 10) \o <<Digit(n % 10)>>

\* the characters str.strip() removes
Whitespace == {" ", "\t", "\n"}

RECURSIVE LStrip(_)
LStrip(s) == IF s # << >> /\ Head(s) \in Whitespace THEN LStrip(Tail(s)) ELSE s

RECURSIVE RStrip(_)
RStrip(s) ==
    IF s # << >> /\ s[Len(s)] \in Whitespace
    THEN RStrip(SubSeq(s, 1, Len(s) - 1))
    ELSE s

\* line.strip()
Strip(s) == RStrip(LStrip(s))

\* line.partition(" "): split at the first single space
Partition(s) ==
    LET hits == {i \in 1..Len(s) : s[i] = " "}
    IN  IF hits = {}
        THEN <<s, << >>, << >>>>
        ELSE LET i == CHOOSE k \in hits : \A j \in hits : k <= j
             IN  <<SubSeq(s, 1, i - 1), <<" ">>, SubSeq(s, i + 1, Len(s))>>

\* a membership test that never finds the key
HasKeyNever(d, k) == FALSE

\* key in d
HasKey(d, k) == k \in DOMAIN d

\* d[k] = v
Put(d, k, v) == [x \in (DOMAIN d) \cup {k} |-> IF x = k THEN v ELSE d[x]]

\* {}
EmptyDict == [x \in {} |-> None]

(* ------------------------------ the input ----------------------------- *)

\* one directive line as it stands in a node file: indented, newline-ended
Directive(keyword, value) == <<" ", " ", keyword, " ", value, "\n">>

\* the lines a file is made of
Lines ==
    { <<"begin", " ", "node", "\n">>,
      <<"end", " ", "node", "\n">>,
      Directive("id", "1"),
      Directive("id", "2"),
      Directive("name", "a"),
      Directive("name", "b"),
      Directive("address", "x"),
      Directive("community", "public"),
      <<"\n">> }

\* lines as they are not meant to be written: a keyword with nothing after
\* it, two spaces or a tab between `begin` and `node`, text after `node`
TokLines ==
    { <<"begin", " ", "node", "\n">>,
      <<"end", " ", "node", "\n">>,
      <<"begin", "\n">>,
      <<"end", "\n">>,
      <<" ", " ", "id", "\n">>,
      <<" ", " ", "name", "\n">>,
      <<" ", " ", "address", "\n">>,
      <<" ", " ", "community", "\n">>,
      <<"begin", " ", " ", "node", "\n">>,
      <<"begin", "\t", "node", "\n">>,
      <<"begin", " ", "node", " ", "x", "\n">>,
      Directive("id", "1"),
      Directive("name", "a") }

(* ------------------------------- state -------------------------------- *)

VARIABLES
    pc,                 \* "start", "scan", "done", "fatal", "crashed"
    exception,          \* the exception that ended the run, or "none"
    result,             \* the exit status of the process, None while running
    a_file,             \* the lines of the file read so far
    out,                \* the lines printed on the console
    verbose_mode,
    line_number,
    node_count,
    warnings,
    errors,
    node_id,
    node_name,
    node_start_line,
    address,
    nodename_to_line,
    ipaddr_to_nodename,
    nodeid_to_line,
    run,                \* which run of the script this is
    prev                \* the console output and exit status of the run before

vars == <<pc, exception, result, a_file, out, verbose_mode, line_number,
          node_count, warnings, errors, node_id, node_name, node_start_line,
          address, nodename_to_line, ipaddr_to_nodename, nodeid_to_line,
          run, prev>>

(* ----------------------------- console text --------------------------- *)

\* line 30: the file the script reads by default
node_filename == <<"/opt/OSInc/db/nervecenter.node">>

CheckingMsg == <<"Checking node file ">> \o node_filename

NewNodeMsg(start) == <<"New node starting at line ">> \o start

EndsMsg(n) == <<"  ends at line ">> \o Str(n)

VerboseIdMsg(id) == <<"  id ">> \o id

VerboseNameMsg(name) == <<"  name ">> \o name

VerboseAddressMsg(addr) == <<"  address ">> \o addr

MissingIdMsg(name, start) ==
    <<"WARNING: Node ">> \o name \o <<" at line ">> \o start
        \o <<" does not have an id">>

DupIdMsg(first, start, id) ==
    <<"ERROR: The nodes at line ">> \o first \o <<" and ">> \o start
        \o <<" both have the id ">> \o id

DupNameMsg(first, start, name) ==
    <<"ERROR: The nodes at line ">> \o first \o <<" and ">> \o start
        \o <<" both have the name ">> \o name

SharedAddressMsg(name, start, other, otherStart, addr) ==
    <<"WARNING: Node ">> \o name \o <<" (line ">> \o start
        \o <<") and node ">> \o other \o <<" (line ">> \o otherStart
        \o <<") both have ip address ">> \o addr

FinishedMsg(nodes, errs, warns) ==
    <<"Finished. ">> \o Str(nodes) \o <<" nodes, ">> \o Str(errs)
        \o <<" errors">> \o Str(warns) \o <<" warnings">>

CannotAccessMsg == <<"    Cannot access file ">> \o node_filename

\* what print adds to the console when verbose_mode is set
Verbose(msg) == IF verbose_mode THEN <<msg>> ELSE << >>

(* ------------------------------ decisions ----------------------------- *)

\* the test of line 146 without its look at what follows the keyword
IsBeginKeywordOnly(elements) == <<"begin">> = elements[1]

\* line 146
IsBegin(elements) == <<"begin">> = elements[1] /\ <<"node">> = elements[3]

\* the test of line 154 without its look at what follows the keyword
IsEndKeywordOnly(elements) == <<"end">> = elements[1]

\* line 154
IsEnd(elements) == <<"end">> = elements[1] /\ <<"node">> = elements[3]

\* line 169
IsId(elements) == ~IsEnd(elements) /\ <<"id">> = elements[1]

\* line 185
IsName(elements) ==
    ~IsEnd(elements) /\ ~IsId(elements) /\ <<"name">> = elements[1]

\* line 201
IsAddress(elements) ==
    /\ ~IsEnd(elements) /\ ~IsId(elements) /\ ~IsName(elements)
    /\ <<"address">> = elements[1]

\* the check of line 157 without its test that ids are in use
MissingIdWhateverTheFile(reg, id) == IsNone(id)

\* line 157: the file uses ids and this node has none
MissingId(reg, id) == 0 < Cardinality(DOMAIN reg) /\ IsNone(id)

\* the test of line 223 with <= for <
ExitCodeFromZero(errs) == IF 0 <= errs THEN 1 ELSE 0

\* lines 222-224
ExitCode(errs) == IF 0 < errs THEN 1 ELSE 0

\* an uncaught exception: the interpreter prints a traceback and exits with 1
Raise(exc) == pc' = "crashed" /\ exception' = exc /\ result' = Some(1)

Continue == UNCHANGED <<pc, exception, result>>

(* ------------------------------- actions ------------------------------ *)

Init ==
    /\ pc = "start"
    /\ exception = "none"
    /\ result = None
    /\ a_file = << >>
    /\ out = <<CheckingMsg>>
    /\ verbose_mode \in BOOLEAN
    /\ line_number = 0
    /\ node_count = 0
    /\ warnings = 0
    /\ errors = 0
    /\ node_id = None
    /\ node_name = None
    /\ node_start_line = None
    /\ address = None
    /\ nodename_to_line = EmptyDict
    /\ ipaddr_to_nodename = EmptyDict
    /\ nodeid_to_line = EmptyDict
    /\ run = 1
    /\ prev = None

\* line 134: open() succeeds
OpenFile ==
    /\ pc = "start"
    /\ pc' = "scan"
    /\ UNCHANGED <<exception, result, a_file, out, verbose_mode, line_number,
                   node_count, warnings, errors, node_id, node_name,
                   node_start_line, address, nodename_to_line,
                   ipaddr_to_nodename, nodeid_to_line, run, prev>>

\* lines 134, 227-230: the file does not exist
OpenNotFound ==
    /\ pc = "start"
    /\ pc' = "fatal"
    /\ exception' = "FileNotFoundError"
    /\ out' = Append(out, CannotAccessMsg)
    /\ result' = Some(2)
    /\ UNCHANGED <<a_file, verbose_mode, line_number, node_count, warnings,
                   errors, node_id, node_name, node_start_line, address,
                   nodename_to_line, ipaddr_to_nodename, nodeid_to_line,
                   run, prev>>

\* line 134: open() fails for another reason (no permission, a directory);
\* the except clause of line 227 does not match
OpenDenied ==
    /\ pc = "start"
    /\ \E exc \in {"PermissionError", "IsADirectoryError"} : Raise(exc)
    /\ UNCHANGED <<a_file, out, verbose_mode, line_number, node_count,
                   warnings, errors, node_id, node_name, node_start_line,
                   address, nodename_to_line, ipaddr_to_nodename,
                   nodeid_to_line, run, prev>>

\* line 135: reading the next line fails (an I/O error, bytes that are not
\* UTF-8); no except clause matches
ReadFail ==
    /\ pc = "scan"
    /\ \E exc \in {"OSError", "UnicodeDecodeError"} : Raise(exc)
    /\ UNCHANGED <<a_file, out, verbose_mode, line_number, node_count,
                   warnings, errors, node_id, node_name, node_start_line,
                   address, nodename_to_line, ipaddr_to_nodename,
                   nodeid_to_line, run, prev>>

\* lines 142-144
SkipEmpty(elements) ==
    /\ 0 = Len(elements[1])
    /\ Continue
    /\ UNCHANGED <<out, node_count, warnings, errors, node_id, node_name,
                   node_start_line, address, nodename_to_line,
                   ipaddr_to_nodename, nodeid_to_line>>

\* lines 146-152 taking the start-line before line 136 has counted the line
BeginNodeOffByOne(elements) ==
    /\ 0 # Len(elements[1])
    /\ IsBegin(elements)
    /\ node_count' = node_count + 1
    /\ node_start_line' = Some(Str(line_number))
    /\ out' = out \o Verbose(NewNodeMsg(Str(line_number)))
    /\ Continue
    /\ UNCHANGED <<warnings, errors, node_id, node_name, address,
                   nodename_to_line, ipaddr_to_nodename, nodeid_to_line>>

\* lines 146-152 without line 147
BeginNodeNotCounted(elements) ==
    /\ 0 # Len(elements[1])
    /\ IsBegin(elements)
    /\ node_start_line' = Some(Str(line_number'))
    /\ out' = out \o Verbose(NewNodeMsg(Str(line_number')))
    /\ Continue
    /\ UNCHANGED <<node_count, warnings, errors, node_id, node_name, address,
                   nodename_to_line, ipaddr_to_nodename, nodeid_to_line>>

\* lines 146-152
BeginNode(elements) ==
    /\ 0 # Len(elements[1])
    /\ IsBegin(elements)
    /\ node_count' = node_count + 1
    /\ node_start_line' = Some(Str(line_number'))
    /\ out' = out \o Verbose(NewNodeMsg(Str(line_number')))
    /\ Continue
    /\ UNCHANGED <<warnings, errors, node_id, node_name, address,
                   nodename_to_line, ipaddr_to_nodename, nodeid_to_line>>

\* lines 154-167
EndNode(elements) ==
    /\ 0 # Len(elements[1])
    /\ IsEnd(elements)
    /\ IF MissingId(nodeid_to_line, node_id)
       THEN /\ warnings' = warnings + 1
            /\ IF IsNone(node_name) \/ IsNone(node_start_line)
               THEN /\ Raise("TypeError")
                    /\ UNCHANGED <<out, node_start_line, node_id>>
               ELSE /\ out' = out
                            \o <<MissingIdMsg(Val(node_name),
                                              Val(node_start_line))>>
                            \o Verbose(EndsMsg(line_number'))
                    /\ node_start_line' = None
                    /\ node_id' = None
                    /\ Continue
       ELSE /\ out' = out \o Verbose(EndsMsg(line_number'))
            /\ node_start_line' = None
            /\ node_id' = None
            /\ Continue
            /\ UNCHANGED warnings
    /\ UNCHANGED <<node_count, errors, node_name, address, nodename_to_line,
                   ipaddr_to_nodename, nodeid_to_line>>

\* lines 169-183
IdField(elements) ==
    /\ 0 # Len(elements[1])
    /\ ~IsBegin(elements)
    /\ IsId(elements)
    /\ node_id' = Some(elements[3])
    /\ IF HasKey(nodeid_to_line, elements[3])
       THEN /\ errors' = errors + 1
            /\ UNCHANGED nodeid_to_line
            /\ IF IsNone(nodeid_to_line[elements[3]]) \/ IsNone(node_start_line)
               THEN /\ out' = out \o Verbose(VerboseIdMsg(elements[3]))
                    /\ Raise("TypeError")
               ELSE /\ out' = out
                            \o Verbose(VerboseIdMsg(elements[3]))
                            \o <<DupIdMsg(Val(nodeid_to_line[elements[3]]),
                                          Val(node_start_line), elements[3])>>
                    /\ Continue
       ELSE /\ nodeid_to_line' = Put(nodeid_to_line, elements[3], node_start_line)
            /\ out' = out \o Verbose(VerboseIdMsg(elements[3]))
            /\ Continue
            /\ UNCHANGED errors
    /\ UNCHANGED <<node_count, warnings, node_name, node_start_line, address,
                   nodename_to_line, ipaddr_to_nodename>>

\* lines 185-199
NameField(elements) ==
    /\ 0 # Len(elements[1])
    /\ ~IsBegin(elements)
    /\ IsName(elements)
    /\ node_name' = Some(elements[3])
    /\ IF HasKey(nodename_to_line, elements[3])
       THEN /\ errors' = errors + 1
            /\ UNCHANGED nodename_to_line
            /\ IF IsNone(nodename_to_line[elements[3]]) \/ IsNone(node_start_line)
               THEN /\ out' = out \o Verbose(VerboseNameMsg(elements[3]))
                    /\ Raise("TypeError")
               ELSE /\ out' = out
                            \o Verbose(VerboseNameMsg(elements[3]))
                            \o <<DupNameMsg(Val(nodename_to_line[elements[3]]),
                                            Val(node_start_line), elements[3])>>
                    /\ Continue
       ELSE /\ nodename_to_line' = Put(nodename_to_line, elements[3], node_start_line)
            /\ out' = out \o Verbose(VerboseNameMsg(elements[3]))
            /\ Continue
            /\ UNCHANGED errors
    /\ UNCHANGED <<node_count, warnings, node_id, node_start_line, address,
                   nodeid_to_line, ipaddr_to_nodename>>

\* lines 201-217
AddressField(elements) ==
    /\ 0 # Len(elements[1])
    /\ ~IsBegin(elements)
    /\ IsAddress(elements)
    /\ address' = Some(elements[3])
    /\ IF HasKey(ipaddr_to_nodename, elements[3])
       THEN LET other_node_nodename == ipaddr_to_nodename[elements[3]]
            IN  /\ UNCHANGED ipaddr_to_nodename
                /\ IF \/ IsNone(other_node_nodename)
                      \/ ~HasKey(nodename_to_line, Val(other_node_nodename))
                   THEN \* line 211: the lookup fails
                        /\ out' = out \o Verbose(VerboseAddressMsg(elements[3]))
                        /\ Raise("KeyError")
                        /\ UNCHANGED warnings
                   ELSE LET other_node_start_line ==
                                nodename_to_line[Val(other_node_nodename)]
                        IN  /\ warnings' = warnings + 1
                            /\ IF \/ IsNone(node_name)
                                  \/ IsNone(node_start_line)
                                  \/ IsNone(other_node_start_line)
                               THEN /\ out' = out
                                        \o Verbose(VerboseAddressMsg(elements[3]))
                                    /\ Raise("TypeError")
                               ELSE /\ out' = out
                                        \o Verbose(VerboseAddressMsg(elements[3]))
                                        \o <<SharedAddressMsg(
                                               Val(node_name),
                                               Val(node_start_line),
                                               Val(other_node_nodename),
                                               Val(other_node_start_line),
                                               elements[3])>>
                                    /\ Continue
       ELSE /\ ipaddr_to_nodename' = Put(ipaddr_to_nodename, elements[3], node_name)
            /\ out' = out \o Verbose(VerboseAddressMsg(elements[3]))
            /\ Continue
            /\ UNCHANGED warnings
    /\ UNCHANGED <<node_count, errors, node_id, node_name, node_start_line,
                   nodename_to_line, nodeid_to_line>>

\* no branch of lines 146-217 matches
OtherLine(elements) ==
    /\ 0 # Len(elements[1])
    /\ ~IsBegin(elements)
    /\ ~IsEnd(elements)
    /\ ~IsId(elements)
    /\ ~IsName(elements)
    /\ ~IsAddress(elements)
    /\ Continue
    /\ UNCHANGED <<out, node_count, warnings, errors, node_id, node_name,
                   node_start_line, address, nodename_to_line,
                   ipaddr_to_nodename, nodeid_to_line>>

\* The content of the file is fixed by what the first run finds in it: the
\* first run may find any line next, a later run finds the same lines again.
IsNextLine(line) ==
    \/ run = 1
    \/ /\ run > 1
       /\ Len(a_file) < Len(Val(prev).a_file)
       /\ line = Val(prev).a_file[Len(a_file) + 1]

AtEndOfFile ==
    \/ run = 1
    \/ /\ run > 1
       /\ Len(a_file) = Len(Val(prev).a_file)

\* lines 135-217: one pass of the loop body over the next line of the file,
\* which is one of lineSet, in a file of at most maxLen lines
ReadFrom(lineSet, maxLen) ==
    /\ pc = "scan"
    /\ Len(a_file) < maxLen
    /\ \E line \in lineSet :
        /\ IsNextLine(line)
        /\ a_file' = Append(a_file, line)
        /\ line_number' = line_number + 1
        /\ LET elements == Partition(Strip(line))
           IN  \/ SkipEmpty(elements)
               \/ BeginNode(elements)
               \/ EndNode(elements)
               \/ IdField(elements)
               \/ NameField(elements)
               \/ AddressField(elements)
               \/ OtherLine(elements)
    /\ UNCHANGED <<verbose_mode, run, prev>>

\* lines 135-217 on a file of the lines of Lines
ReadLine == ReadFrom(Lines, MaxLines)

\* lines 135-217 on a file of the lines of TokLines
ReadTokLine == ReadFrom(TokLines, MaxTokLines)

\* lines 219-225: end of file
EndOfFile ==
    /\ pc = "scan"
    /\ AtEndOfFile
    /\ out' = Append(out, FinishedMsg(node_count, errors, warnings))
    /\ result' = Some(ExitCode(errors))
    /\ pc' = "done"
    /\ UNCHANGED <<exception, a_file, verbose_mode, line_number, node_count,
                   warnings, errors, node_id, node_name, node_start_line,
                   address, nodename_to_line, ipaddr_to_nodename,
                   nodeid_to_line, run, prev>>

\* a restart that keeps the Identifier Registry of the run before
RerunKeepingIds ==
    /\ pc \in {"done", "crashed"}
    /\ run = 1
    /\ Len(a_file) <= MaxRerunLines
    /\ run' = 2
    /\ prev' = Some([a_file |-> a_file, out |-> out, result |-> result,
                     exception |-> exception, node_count |-> node_count,
                     errors |-> errors, warnings |-> warnings])
    /\ pc' = "start"
    /\ exception' = "none"
    /\ result' = None
    /\ a_file' = << >>
    /\ out' = <<CheckingMsg>>
    /\ line_number' = 0
    /\ node_count' = 0
    /\ warnings' = 0
    /\ errors' = 0
    /\ node_id' = None
    /\ node_name' = None
    /\ node_start_line' = None
    /\ address' = None
    /\ nodename_to_line' = EmptyDict
    /\ ipaddr_to_nodename' = EmptyDict
    /\ UNCHANGED <<verbose_mode, nodeid_to_line>>

\* lines 90-133: the script is started again on the same file; every
\* module-level variable is created anew
Rerun ==
    /\ pc \in {"done", "crashed"}
    /\ run = 1
    /\ Len(a_file) <= MaxRerunLines
    /\ run' = 2
    /\ prev' = Some([a_file |-> a_file, out |-> out, result |-> result,
                     exception |-> exception, node_count |-> node_count,
                     errors |-> errors, warnings |-> warnings])
    /\ pc' = "start"
    /\ exception' = "none"
    /\ result' = None
    /\ a_file' = << >>
    /\ out' = <<CheckingMsg>>
    /\ line_number' = 0
    /\ node_count' = 0
    /\ warnings' = 0
    /\ errors' = 0
    /\ node_id' = None
    /\ node_name' = None
    /\ node_start_line' = None
    /\ address' = None
    /\ nodename_to_line' = EmptyDict
    /\ ipaddr_to_nodename' = EmptyDict
    /\ nodeid_to_line' = EmptyDict
    /\ UNCHANGED verbose_mode

Next ==
    \/ OpenFile
    \/ OpenNotFound
    \/ OpenDenied
    \/ ReadFail
    \/ ReadLine
    \/ EndOfFile

Spec == Init /\ [][Next]_vars

\* two runs of the script on one readable file
NextTwice ==
    \/ OpenFile
    \/ ReadLine
    \/ EndOfFile
    \/ Rerun

SpecTwice == Init /\ [][NextTwice]_vars

\* one run of the script on a readable file of oddly written lines
NextTok ==
    \/ OpenFile
    \/ ReadTokLine
    \/ EndOfFile

SpecTok == Init /\ [][NextTok]_vars

(* ------------------- the file and the console, in retrospect ---------- *)

\* the parsed line i of the lines read so far
ElementsAt(file, i) == Partition(Strip(file[i]))

BeginLines(file) == {i \in 1..Len(file) : IsBegin(ElementsAt(file, i))}

EndLines(file) == {i \in 1..Len(file) : IsEnd(ElementsAt(file, i))}

IdLines(file) ==
    {i \in 1..Len(file) :
        Len(ElementsAt(file, i)[1]) # 0 /\ IsId(ElementsAt(file, i))}

NameLines(file) ==
    {i \in 1..Len(file) :
        Len(ElementsAt(file, i)[1]) # 0 /\ IsName(ElementsAt(file, i))}

AddressLines(file) ==
    {i \in 1..Len(file) :
        Len(ElementsAt(file, i)[1]) # 0 /\ IsAddress(ElementsAt(file, i))}

\* the record line i lies in: the set holding the number of the latest
\* `begin node` line before i with no `end node` line in between, or {}
RecordOf(file, i) ==
    {b \in BeginLines(file) :
        /\ b < i
        /\ \A j \in (b + 1)..(i - 1) :
               j \notin BeginLines(file) /\ j \notin EndLines(file)}

\* the records of the file that have their `end node` line, each named by
\* the number of its `begin node` line
Records(file) == {b \in BeginLines(file) : \E e \in EndLines(file) : RecordOf(file, e) = {b}}

\* the field lines of record b
LinesOf(file, b) == {i \in 1..Len(file) : RecordOf(file, i) = {b}}

\* the records that carry the line `id v` / `name n`
RecordsWithId(file, v) ==
    {b \in BeginLines(file) :
        \E i \in LinesOf(file, b) \cap IdLines(file) : ElementsAt(file, i)[3] = v}

RecordsWithName(file, n) ==
    {b \in BeginLines(file) :
        \E i \in LinesOf(file, b) \cap NameLines(file) : ElementsAt(file, i)[3] = n}

Min(S) == CHOOSE x \in S : \A y \in S : x <= y

\* the values the lines of the model carry
ValuesOf(keyword) ==
    {Partition(Strip(l))[3] : l \in {m \in Lines : Partition(Strip(m))[1] = <<keyword>>}}

IdValues == ValuesOf("id")

NameValues == ValuesOf("name")

AddressValues == ValuesOf("address")

\* the line numbers a message can cite
LineStrs == {Str(n) : n \in 0..(MaxLines + MaxTokLines)}

IsDupIdError(m, v) == \E f, l \in LineStrs : m = DupIdMsg(f, l, v)

IsDupNameError(m, n) == \E f, l \in LineStrs : m = DupNameMsg(f, l, n)

IsMissingIdWarning(m) ==
    Head(m) = "WARNING: Node " /\ m[Len(m)] = " does not have an id"

IsSharedAddressWarning(m) ==
    Head(m) = "WARNING: Node " /\ ") both have ip address " \in {m[j] : j \in 1..Len(m)}

IsError(m) == Head(m) = "ERROR: The nodes at line "

IsWarning(m) == Head(m) = "WARNING: Node "

IsFinished(m) == Head(m) = "Finished. "

Count(o, P(_)) == Cardinality({j \in 1..Len(o) : P(o[j])})

\* the WARNING and ERROR lines of a console, in order
RECURSIVE Diagnostics(_)
Diagnostics(o) ==
    IF o = << >> THEN << >>
    ELSE IF IsError(Head(o)) \/ IsWarning(Head(o))
         THEN <<Head(o)>> \o Diagnostics(Tail(o))
         ELSE Diagnostics(Tail(o))

\* the run was ended by an exception raised while a line was processed
CrashedOnLine == pc = "crashed" /\ exception \in {"TypeError", "KeyError"}

\* the run was ended because the file could not be opened or read
InputFailed ==
    exception \in {"FileNotFoundError", "PermissionError", "IsADirectoryError",
                   "OSError", "UnicodeDecodeError"}

(* -------------------------------- claims ------------------------------ *)

\* C1: whatever lines a readable file holds, processing a line never ends
\* the run abnormally.
C1_NeverCrashesOnALine == ~CrashedOnLine

\* C2: when the scan finishes, the outcome code is 1 if and only if the error
\* count is greater than 0, and 0 otherwise, whatever the warning count.
C2_OutcomeFromErrors ==
    pc = "done" =>
        /\ result \in {Some(0), Some(1)}
        /\ result = Some(1) <=> errors > 0

C2_Witness ==
    pc = "done" /\ warnings > 0 /\ errors = 0 /\ result = Some(0)

\* C3: for every identifier v that k >= 1 records carry, exactly k-1
\* duplicate-id ERRORs are emitted for v and the Identifier Registry keeps
\* for v the start-line of the first record that declared v.
C3_DupIdPerRecord ==
    \A v \in IdValues :
        LET recs == RecordsWithId(a_file, v)
        IN  recs # {} =>
                /\ Count(out, LAMBDA m : IsDupIdError(m, v)) = Cardinality(recs) - 1
                /\ HasKey(nodeid_to_line, v)
                /\ nodeid_to_line[v] = Some(Str(Min(recs)))

\* C4: for every name n that k >= 1 records carry, exactly k-1
\* duplicate-name ERRORs are emitted for n and the Name Registry keeps for n
\* the start-line of the first record that declared n.
C4_DupNamePerRecord ==
    \A n \in NameValues :
        LET recs == RecordsWithName(a_file, n)
        IN  recs # {} =>
                /\ Count(out, LAMBDA m : IsDupNameError(m, n)) = Cardinality(recs) - 1
                /\ HasKey(nodename_to_line, n)
                /\ nodename_to_line[n] = Some(Str(Min(recs)))

\* C5: in a file where some record contains an `id` line, every record with
\* no `id` line has caused exactly one "does not have an id" WARNING citing
\* it, whether it stands before or after the first record with an id.
C5_MissingIdEveryRecord ==
    pc = "done" =>
        \A b \in Records(a_file) :
            (/\ \E c \in Records(a_file) :
                    LinesOf(a_file, c) \cap IdLines(a_file) # {}
             /\ LinesOf(a_file, b) \cap IdLines(a_file) = {})
            => Count(out, LAMBDA m : \E n \in NameValues :
                              m = MissingIdMsg(n, Str(b))) = 1

\* C6: a file without any `id` line never gets a "does not have an id"
\* WARNING, and such a WARNING is only ever emitted by an `end node` line
\* read while the Identifier Registry is non-empty.
C6_MissingIdOnlyWhenIdsInUse ==
    /\ [](IdLines(a_file) = {} => Count(out, IsMissingIdWarning) = 0)
    /\ [][Count(out', IsMissingIdWarning) # Count(out, IsMissingIdWarning)
            => /\ DOMAIN nodeid_to_line # {}
               /\ Len(a_file') = Len(a_file) + 1
               /\ Len(a_file') \in EndLines(a_file')]_vars

C6_Witness ==
    /\ pc = "done"
    /\ IdLines(a_file) = {}
    /\ Cardinality(Records(a_file)) >= 2
    /\ NameLines(a_file) # {}
    /\ warnings = 0
\* C7: a record's `address` line whose address is already in the Address
\* Registry emits exactly one WARNING, adds one to the warning count and
\* leaves the error count alone; a run that emitted no ERROR finishes with
\* outcome code 0.
C7_SharedAddressWarnsOnce ==
    /\ [][(/\ pc = "scan"
           /\ Len(a_file') = Len(a_file) + 1
           /\ Len(a_file') \in AddressLines(a_file')
           /\ RecordOf(a_file', Len(a_file')) # {}
           /\ HasKey(ipaddr_to_nodename, ElementsAt(a_file', Len(a_file'))[3]))
          => /\ warnings' = warnings + 1
             /\ errors' = errors
             /\ Count(out', IsWarning) = Count(out, IsWarning) + 1]_vars
    /\ [](pc = "done" /\ Count(out, IsError) = 0 => result = Some(0))

\* C8: a file without a `begin node` line, so without any `begin node` /
\* `end node` pair, is processed to the end with node_count = 0,
\* error_count = 0, warning_count = 0 and outcome code 0.
C8_NoRecordsNoFindings ==
    (/\ pc \in {"done", "crashed"}
     /\ ~InputFailed
     /\ BeginLines(a_file) = {})
    => /\ pc = "done"
       /\ node_count = 0
       /\ errors = 0
       /\ warnings = 0
       /\ result = Some(0)

\* C9: when the input cannot be opened or read, the run ends with outcome
\* code 2 and the fatal message, with no WARNING, no ERROR and no
\* `Finished.` line on the console.
C9_InputFailureIsFatal ==
    InputFailed =>
        /\ result = Some(2)
        /\ out[Len(out)] = CannotAccessMsg
        /\ Count(out, IsWarning) = 0
        /\ Count(out, IsError) = 0
        /\ Count(out, IsFinished) = 0

Kept(d, e) == \A k \in DOMAIN d : k \in DOMAIN e /\ e[k] = d[k]

\* C11: in each of the three registries a key, once inserted, stays with
\* the value it was inserted with whatever line is read next.
C11_RegistriesKeepFirstWriter ==
    [][/\ Kept(nodeid_to_line, nodeid_to_line')
       /\ Kept(nodename_to_line, nodename_to_line')
       /\ Kept(ipaddr_to_nodename, ipaddr_to_nodename')]_vars

C11_Witness ==
    /\ Count(out, IsError) >= 1
    /\ Count(out, IsSharedAddressWarning) >= 1
    /\ DOMAIN nodename_to_line # {}
    /\ DOMAIN ipaddr_to_nodename # {}

\* the lines that have been processed: all the lines read, but for the line
\* whose processing raised the exception that ended the run
Processed ==
    IF CrashedOnLine THEN SubSeq(a_file, 1, Len(a_file) - 1) ELSE a_file

Max(S) == CHOOSE x \in S : \A y \in S : y <= x

\* C12: after the lines processed so far the start-line is defined exactly
\* when the latest `begin node` or `end node` line among them is a
\* `begin node`, and it is then the number of that line; it is undefined at
\* the start and after every `end node`.
C12_StartLineInsideRecord ==
    LET marks == BeginLines(Processed) \cup EndLines(Processed)
    IN  node_start_line =
            IF marks # {} /\ Max(marks) \in BeginLines(Processed)
            THEN Some(Str(Max(marks)))
            ELSE None

C12_Witness ==
    /\ pc = "scan"
    /\ EndLines(a_file) # {}
    /\ node_start_line # None
    /\ Len(a_file) \notin BeginLines(a_file)
\* the names the `name` lines of record b give
NamesOf(file, b) ==
    {ElementsAt(file, i)[3] : i \in LinesOf(file, b) \cap NameLines(file)}

\* the first line of the file that claims address a
FirstClaim(file, a) ==
    Min({i \in AddressLines(file) : ElementsAt(file, i)[3] = a})

\* C13: an address-sharing WARNING names as the other node the record that
\* first claimed the address and cites the start-line of that same record.
C13_SharedAddressCitesFirstClaimant ==
    \A j \in 1..Len(out) :
        \A n, o \in NameValues, l, k \in LineStrs, a \in AddressValues :
            out[j] = SharedAddressMsg(n, l, o, k, a) =>
                \E b \in RecordOf(a_file, FirstClaim(a_file, a)) :
                    k = Str(b) /\ o \in NamesOf(a_file, b)

\* C14: a missing-id WARNING cites the name a `name` line gives inside the
\* record that the `end node` line closes, and the number of that record's
\* own `begin node` line.
C14_MissingIdCitesOwnRecord ==
    [][Count(out', IsMissingIdWarning) > Count(out, IsMissingIdWarning)
        => \E b \in RecordOf(a_file', Len(a_file')) :
             \E n \in NamesOf(a_file', b) :
                \E j \in (Len(out) + 1)..Len(out') :
                    out'[j] = MissingIdMsg(n, Str(b))]_vars
\* the line read by the step
LineRead == a_file'[Len(a_file')]

\* the step reads a line
ReadsALine == Len(a_file') = Len(a_file) + 1

\* the step leaves the counters, the registries and the fields of the record
\* alone and emits no diagnostic
Skipped ==
    /\ UNCHANGED <<node_count, warnings, errors, node_id, node_name,
                   node_start_line, address, nodename_to_line,
                   ipaddr_to_nodename, nodeid_to_line, pc>>
    /\ Diagnostics(out') = Diagnostics(out)

\* C15: a line that consists of a single token is skipped: it changes no
\* counter, no registry and no per-record field and emits no diagnostic.
C15_SingleTokenSkipped ==
    [][ReadsALine /\ Len(Strip(LineRead)) = 1 => Skipped]_vars

\* C15, amended: a line that consists of a single token other than `id`,
\* `name` and `address` is skipped: it changes no counter, no registry and no
\* per-record field and emits no diagnostic.
C15_SingleTokenNotAFieldSkipped ==
    [][(/\ ReadsALine
        /\ Len(Strip(LineRead)) = 1
        /\ Strip(LineRead)[1] \notin {"id", "name", "address"})
       => Skipped]_vars

C15_Witness ==
    /\ pc = "scan"
    /\ Len(a_file) >= 2
    /\ Strip(a_file[Len(a_file)]) = <<"end">>
    /\ node_start_line # None

\* the whitespace-delimited tokens of a line
Tokens(line) == SelectSeq(line, LAMBDA c : c \notin Whitespace)

\* the step counts the line read as a record start, or does not
StartsRecord ==
    /\ node_count' = node_count + 1
    /\ node_start_line' = Some(Str(Len(a_file')))

StartsNoRecord ==
    /\ node_count' = node_count
    /\ node_start_line' # Some(Str(Len(a_file')))

\* C16: a line is a record start exactly when its first token is `begin` and
\* its second token is `node`, whatever separates them and whatever follows;
\* such a line adds one to node_count and sets the start-line to its number,
\* and no other line does.
C16_RecordStartByTokens ==
    [][ReadsALine =>
        IF /\ Len(Tokens(LineRead)) >= 2
           /\ Tokens(LineRead)[1] = "begin"
           /\ Tokens(LineRead)[2] = "node"
        THEN StartsRecord
        ELSE StartsNoRecord]_vars

\* C16, amended: a line is a record start exactly when, stripped of the
\* whitespace around it, it is `begin`, one space and `node`; such a line adds
\* one to node_count and sets the start-line to its number, and no other line
\* does.
C16_RecordStartExactText ==
    [][ReadsALine =>
        IF Strip(LineRead) = <<"begin", " ", "node">>
        THEN StartsRecord
        ELSE StartsNoRecord]_vars

C16_Witness ==
    /\ pc = "scan"
    /\ Len(a_file) = 3
    /\ a_file[2] = <<"begin", " ", "node", "\n">>
    /\ a_file[3] = <<"begin", " ", "node", " ", "x", "\n">>
    /\ node_count = 1
    /\ node_start_line = Some(Str(2))
\* lines i and j of the file are lines of the same field
SameField(file, i, j) ==
    \/ {i, j} \subseteq IdLines(file)
    \/ {i, j} \subseteq NameLines(file)
    \/ {i, j} \subseteq AddressLines(file)

\* C17: a field line that repeats a field an earlier line of the same record
\* span gave emits no ERROR and no WARNING and changes no counter.
C17_RepeatedFieldSilent ==
    [][(/\ ReadsALine
        /\ \E b \in RecordOf(a_file', Len(a_file')) :
              \E i \in LinesOf(a_file', b) :
                  i < Len(a_file') /\ SameField(a_file', i, Len(a_file')))
       => /\ Diagnostics(out') = Diagnostics(out)
          /\ UNCHANGED <<node_count, warnings, errors>>]_vars

\* C18: the three counters start at 0, a step changes each of them by 0 or
\* +1, and node_count is the number of `begin node` lines read so far.
C18_CountersOnlyGrow ==
    /\ node_count = 0 /\ warnings = 0 /\ errors = 0
    /\ [][/\ node_count' \in {node_count, node_count + 1}
          /\ warnings' \in {warnings, warnings + 1}
          /\ errors' \in {errors, errors + 1}]_vars
    /\ [](node_count =
            Cardinality({i \in 1..Len(a_file) :
                            Strip(a_file[i]) = <<"begin", " ", "node">>}))

C18_Witness ==
    /\ pc = "done"
    /\ node_count >= 1
    /\ errors >= 1
    /\ warnings >= 1

\* C19: the error count is the number of ERROR lines on the console and the
\* warning count is the number of WARNING lines on the console.
C19_CountersMatchDiagnostics ==
    /\ errors = Count(out, IsError)
    /\ warnings = Count(out, IsWarning)

\* C20: every value stored in the Address Registry is a name that is a key
\* of the Name Registry, so that the lookup of line 211 succeeds.
C20_AddressClaimantsAreNamed ==
    \A a \in DOMAIN ipaddr_to_nodename :
        \E n \in DOMAIN nodename_to_line : ipaddr_to_nodename[a] = Some(n)

====
